---- MODULE Spec2Model ----
(***************************************************************************)
(* The interactive-state layer of autobids-react: the selection state of   *)
(* TableLauncher (activeIds, changeActiveId, selectAll, deselectAll, the   *)
(* form submission), and the shared modal lifecycle of TableLauncherRow    *)
(* and TaskListItem (modalOpen, the 'hidden.bs.modal' listeners, the       *)
(* portals rendered into #autobidsModalContent).                           *)
(*                                                                         *)
(* React's part is modelled as React documents it: a state update given to *)
(* a useState setter is queued and applied, in dispatch order, by the next *)
(* render of the component; a render of TableLauncher renders every row;   *)
(* a render of a row or of a job runs its function body once.              *)
(***************************************************************************)
EXTENDS Integers, Sequences, FiniteSets

\* ------------------------------------------------------------ bounds
NumRows == 2        \* distinct row ids the collaborator may supply
NumJobs == 3        \* TaskListItem instances on the page
MaxPending == 2     \* state updates queued before TableLauncher re-renders
MaxListeners == 8   \* listeners attached to #autobidsModal (cap of the counters)
MaxDepth == 2       \* nesting depth of the directory mapping
MaxDirNodes == 3    \* directories in one directory mapping
MaxFileNodes == 2   \* files in one directory mapping
MaxSiblings == 2    \* directories directly in one directory
MaxBuilds == 2      \* renders of the accordion

\* ------------------------------------------------------------ data
RowIds == 1..NumRows
JobIds == 1..NumJobs

\* JavaScript null (a job without a log), and the strings a log can be: a
\* string is tagged so that it can be compared with null.
Null == <<"null">>
EmptyString == <<"string">>

\* The values the mutable prop can take: supplied true, supplied false, or
\* not supplied by the collaborator (no defaultProps are declared).
MutableValues == {"true", "false", "undefined"}

\* JavaScript's ! on the values above.
Not(v) == v \in {"false", "undefined"}

\* One element of props.rowInfo.
Row(i) ==
  [id |-> i, fileName |-> <<"file", i>>,
   deleteUrl |-> <<"delete", i>>, renameUrl |-> <<"rename", i>>]

\* The row lists the collaborator may supply: ids are unique (they are the
\* React keys and the DOM ids of the checkboxes), in any order.
RowLists ==
  LET idSeqs == UNION {[1..n -> RowIds] : n \in 0..NumRows}
      distinct(s) == \A i, j \in 1..Len(s) : i # j => s[i] # s[j]
  IN  {[k \in 1..Len(s) |-> Row(s[k])] : s \in {t \in idSeqs : distinct(t)}}

\* A job's log prop: of every three jobs the first has a log with text, the
\* second has none (null) and the third has an empty one ("").
JobLog(j) ==
  IF j % 3 = 1 THEN <<"string", "log", j>>
  ELSE IF j % 3 = 2 THEN Null
  ELSE EmptyString

\* The modal owners: one TableLauncherRow per row id, one TaskListItem per job.
RowOwner(i) == <<"row", i>>
JobOwner(j) == <<"job", j>>
Owners == {RowOwner(i) : i \in RowIds} \cup {JobOwner(j) : j \in JobIds}

\* The page has not navigated away.
NoRequest == [method |-> "none", url |-> <<>>, tar_files |-> <<>>]

VARIABLES
  rowInfo,      \* props.rowInfo of TableLauncher
  mutable,      \* props.mutable of TableLauncher
  activeIds,    \* the useState array of TableLauncher, as of its last render
  pending,      \* updates given to setActiveIds since the last render
  modalOpen,    \* modalOpen of every owner
  listeners,    \* 'hidden.bs.modal' listeners each owner attached to #autobidsModal
  chromeShown,  \* the Bootstrap modal #autobidsModal is shown
  dispatch,     \* the delivery of one 'hidden.bs.modal' event
  request,      \* the HTTP request the page issued (it then unloads)
  want,         \* history: the isActive argument of each id's latest update
  mountPoint,   \* #autobidsModalContent exists in the document
  fatal,        \* the error that unmounted the React tree, if any
  revision,     \* which revision of genAccordion the page runs
  engine,       \* what the engine's sort does with an inconsistent comparator
  fileTree,     \* the directory mapping given to genAccordion
  accordion,    \* the element tree genAccordion returned at the last render
  builds,       \* renders of the accordion so far
  openDirs      \* the DirItems (by path) whose open state is true

vars ==
  <<rowInfo, mutable, activeIds, pending, modalOpen, listeners, chromeShown,
    dispatch, request, want, mountPoint, fatal,
    revision, engine, fileTree, accordion, builds, openDirs>>

\* The state of the selection table and of the modal owners.
pageVars ==
  <<rowInfo, mutable, activeIds, pending, modalOpen, listeners, chromeShown,
    dispatch, request, want, mountPoint, fatal>>

\* The state of the file tree view.
treeVars == <<revision, engine, fileTree, accordion, builds, openDirs>>

\* ------------------------------------------------------------ arrays
Range(s) == {s[i] : i \in 1..Len(s)}

\* Array.prototype.includes
Includes(s, x) == \E i \in 1..Len(s) : s[i] = x

\* Array.prototype.indexOf, 1-based, for an element the array includes
IndexOf(s, x) ==
  CHOOSE i \in 1..Len(s) : s[i] = x /\ \A j \in 1..(i - 1) : s[j] # x

\* Array.prototype.splice(i, 1), 1-based
Splice(s, i) == SubSeq(s, 1, i - 1) \o SubSeq(s, i + 1, Len(s))

\* props.rowInfo.map((row) => row.id)
RowIdsOf(rows) == [k \in 1..Len(rows) |-> rows[k].id]

\* ------------------------------------------------------------ TableLauncher
\* The update one setActiveIds call queues: an updater function (id, isActive
\* are the variables its closure captured) or a plain value.
Updater(id, isActive) ==
  [kind |-> "updater", id |-> id, isActive |-> isActive, value |-> <<>>]
Value(v) == [kind |-> "value", id |-> 0, isActive |-> FALSE, value |-> v]

\* changeActiveIdUpdate with the removal done by newState.pop() instead of
\* newState.splice(state.indexOf(id), 1).
changeActiveIdUpdatePop(state, id, isActive) ==
  IF Includes(state, id) /\ ~isActive
    THEN SubSeq(state, 1, Len(state) - 1)
    ELSE IF ~Includes(state, id) /\ isActive
      THEN Append(state, id)
      ELSE state

\* changeActiveIdUpdate pushing the id without asking state.includes(id).
changeActiveIdUpdatePush(state, id, isActive) ==
  IF Includes(state, id) /\ ~isActive
    THEN Splice(state, IndexOf(state, id))
    ELSE IF isActive
      THEN Append(state, id)
      ELSE state

\* The updater function changeActiveId gives to setActiveIds.
changeActiveIdUpdate(state, id, isActive) ==
  IF Includes(state, id) /\ ~isActive
    THEN Splice(state, IndexOf(state, id))
    ELSE IF ~Includes(state, id) /\ isActive
      THEN Append(state, id)
      ELSE state

\* React applies one queued update to the state the previous one left.
ApplyUpdate(state, u) ==
  IF u.kind = "updater"
    THEN changeActiveIdUpdate(state, u.id, u.isActive)
    ELSE u.value

\* A queue of which only the last update is applied, to the rendered state:
\* what setActiveIds(newArray) computed from the rendered activeIds would do.
ProcessQueueStale(state, queue) ==
  IF queue = <<>> THEN state ELSE ApplyUpdate(state, queue[Len(queue)])

\* React processes the queue of a useState hook in dispatch order.
RECURSIVE ProcessQueue(_, _)
ProcessQueue(state, queue) ==
  IF queue = <<>>
    THEN state
    ELSE ProcessQueue(ApplyUpdate(state, Head(queue)), Tail(queue))

\* The state the next render of TableLauncher will see.
NextActiveIds == ProcessQueue(activeIds, pending)

\* The isActive prop TableLauncher gave row id at its last render.
IsActive(id) == Includes(activeIds, id)

\* The rows TableLauncher rendered.
RenderedIds == Range(RowIdsOf(rowInfo))

\* selectAll with the value taken from the first row only.
selectAllValueFirst(rows) ==
  IF rows = <<>> THEN <<>> ELSE <<rows[1].id>>

\* The value selectAll gives to setActiveIds.
selectAllValue(rows) == RowIdsOf(rows)

\* disabled={!mutable} of the submit input.
SubmitDisabled == Not(mutable)

\* The rename button rendered enabled whatever mutable is.
RenameDisabledNever(m) == FALSE

\* disabled={!mutable} of a row's Rename button (m is the row's mutable prop).
RenameDisabled(m) == Not(m)

\* A View log button that is never disabled.
ViewLogDisabledNever(log) == FALSE

\* disabled={!log} of a job's View log button: ! is true of null and of "".
ViewLogDisabled(log) == log \in {Null, EmptyString}

\* What TaskLogModal puts into the portal: the title and <pre>{log}</pre>.
TaskLogModal(log) == [title |-> "Task log", body |-> log]

\* What TarRenameModal puts into the portal: the form posting new_name
\* (default value fileName) to actionUrl.
TarRenameModal(fileName, actionUrl) ==
  [title |-> "Rename tar file", action |-> actionUrl, new_name |-> fileName]

\* href={deleteUrl} of a row's Delete link, which takes no disabled attribute.
DeleteHref(row) == row.deleteUrl

\* The values of the checked checkboxes named tar_files, in document order:
\* what the browser puts in the body of the form's POST.
TarFiles ==
  SelectSeq(RowIdsOf(rowInfo), LAMBDA id : IsActive(id))

\* ------------------------------------------------------------ modal owners
\* An owner is rendered: jobs always, a row while its id is in rowInfo.
Mounted(o) == o[1] = "job" \/ o[2] \in RenderedIds

\* The owners whose portal (TarRenameModal, TaskLogModal) is rendered into
\* document.querySelector("#autobidsModalContent").
Portals == {o \in Owners : Mounted(o) /\ modalOpen[o]}

\* The content a job with its dialog open renders into the mount point.
JobContent(j) == TaskLogModal(JobLog(j))

\* The button that opens an owner's dialog is disabled.
OpenDisabled(o) ==
  IF o[1] = "row" THEN RenameDisabled(mutable) ELSE ViewLogDisabled(JobLog(o[2]))

\* No render has thrown.
NoError == [owner |-> <<>>, message |-> ""]

\* A portal that renders nothing, without an error, when its container is null.
createPortalThrowsNever(container) == FALSE

\* ReactDOM.createPortal(children, container) throws when container, the
\* result of document.querySelector("#autobidsModalContent"), is null.
createPortalThrows(container) == ~container

\* No 'hidden.bs.modal' event is being delivered.
NoDispatch ==
  [active |-> FALSE, remaining |-> [o \in Owners |-> 0], openAtStart |-> {}]

\* The page is there and no event handler is running.
Idle == request = NoRequest /\ fatal = NoError /\ ~dispatch.active

\* One more run of the function body of each owner in S: each run calls
\* modalElement.addEventListener("hidden.bs.modal", ...) with a new closure.
AddListeners(S) ==
  [o \in Owners |-> IF o \in S THEN listeners[o] + 1 ELSE listeners[o]]

\* The length of the listener list of #autobidsModal.
RECURSIVE Sum(_, _)
Sum(f, S) ==
  IF S = {} THEN 0
  ELSE LET o == CHOOSE x \in S : TRUE IN f[o] + Sum(f, S \ {o})
ListenerCount == Sum(listeners, Owners)

\* Room under the cap for one more render of each owner in S.
CanRender(S) == ListenerCount + Cardinality(S) <= MaxListeners

RowOwnersOf(rows) == {RowOwner(i) : i \in Range(RowIdsOf(rows))}

\* A listener written as a toggle, setModalOpen(!modalOpen).
hiddenListenerToggle(open) == ~open

\* The state the listener (event) => setModalOpen(false) sets.
hiddenListener(open) == FALSE

\* ------------------------------------------------------------ file tree input
\* A name is the sequence of its characters.
Str_a_txt == <<"a", ".", "t", "x", "t">>
Str_b_txt == <<"b", ".", "t", "x", "t">>
Str_sub == <<"s", "u", "b">>
Str_s_ub == <<"s", "/", "u", "b">>
Str_anat == <<"a", "n", "a", "t">>
Str_dir == <<"d", "i", "r">>

FileNames == {Str_a_txt, Str_b_txt}
DirNames == {Str_sub, Str_s_ub, Str_anat}

\* The UTF-16 code unit of a character.
CharCode(c) ==
  CASE c = "." -> 46 [] c = "/" -> 47 [] c = "a" -> 97 [] c = "b" -> 98
    [] c = "d" -> 100 [] c = "i" -> 105 [] c = "n" -> 110 [] c = "r" -> 114
    [] c = "s" -> 115 [] c = "t" -> 116 [] c = "u" -> 117 [] c = "x" -> 120

\* JavaScript's < on strings: by code unit, a proper prefix first.
RECURSIVE StrLess(_, _)
StrLess(a, b) ==
  IF b = <<>> THEN FALSE
  ELSE IF a = <<>> THEN TRUE
  ELSE IF Head(a) = Head(b) THEN StrLess(Tail(a), Tail(b))
  ELSE CharCode(Head(a)) < CharCode(Head(b))

\* A directory mapping { files: [...], dirs: {...} }; dirs is the sequence of
\* its entries in the order Object.entries lists them.
Mapping(files, dirs) == [files |-> files, dirs |-> dirs]
Entry(name, contents) == [name |-> name, contents |-> contents]

\* Sequences of distinct elements of S, at most n long.
DistinctSeqs(S, n) ==
  {s \in UNION {[1..k -> S] : k \in 0..n} :
     \A i, j \in 1..Len(s) : i # j => s[i] # s[j]}

RECURSIVE NumDirs(_), NumFiles(_), SumOver(_, _)
SumOver(s, k) == IF k = 0 THEN 0 ELSE s[k] + SumOver(s, k - 1)
NumDirs(t) ==
  Len(t.dirs)
    + SumOver([k \in 1..Len(t.dirs) |-> NumDirs(t.dirs[k].contents)], Len(t.dirs))
NumFiles(t) ==
  Len(t.files)
    + SumOver([k \in 1..Len(t.dirs) |-> NumFiles(t.dirs[k].contents)], Len(t.dirs))

\* The mappings the collaborator may supply: at most d levels of directories,
\* nd directories and nf files in all; names are unique in a directory.
RECURSIVE FileTrees(_, _, _), DirEntries(_, _, _, _, _)
FileTrees(d, nd, nf) ==
  UNION {
    {Mapping(fs, ds) : ds \in DirEntries(d, nd, nf - Len(fs), MaxSiblings, {})}
    : fs \in DistinctSeqs(FileNames, IF nf < 2 THEN nf ELSE 2)}

\* Entry sequences of at most n entries, of names not in used.
DirEntries(d, nd, nf, n, used) ==
  IF d = 0 \/ nd = 0 \/ n = 0 THEN {<<>>}
  ELSE {<<>>} \cup UNION {
    UNION {
      {<<Entry(name, c)>> \o rest :
         rest \in DirEntries(d, nd - 1 - NumDirs(c), nf - NumFiles(c), n - 1,
                             used \cup {name})}
      : c \in FileTrees(d - 1, nd - 1, nf)}
    : name \in DirNames \ used}

InputTrees == FileTrees(MaxDepth, MaxDirNodes, MaxFileNodes)

\* ------------------------------------------------------------ tree builder
\* The three revisions of genAccordion in the repository.
Unsorted == "part_006"            \* no sort call
SortedByText == "genAccordion.js" \* comparator reads a.text
SortedByProps == "DirItem.js"     \* comparator sortItems reads a.props.text
Revisions == {Unsorted, SortedByText, SortedByProps}

\* Array.prototype.sort with a comparator that answers 1 for every pair is
\* implementation-defined: an engine that looks for an ascending run leaves
\* the array as it is, an insertion sort that shifts while the comparator is
\* positive reverses it.
Engines == {"keep", "reverse"}

\* A React element: a TextItem or a DirItem with its props, or the Accordion.
Element(kind, text, id, children) ==
  [kind |-> kind, text |-> text, dirId |-> id, children |-> children]

NoAccordion == Element("none", <<>>, <<>>, <<>>)

TextItem(fileName) == Element("file", fileName, <<>>, <<>>)

\* files.map(fileName => <TextItem text={fileName}/>), all but the last.
textItemsButLast(files) ==
  [k \in 1..(IF files = <<>> THEN 0 ELSE Len(files) - 1) |-> TextItem(files[k])]

\* files.map(fileName => <TextItem text={fileName}/>)
textItems(files) == [k \in 1..Len(files) |-> TextItem(files[k])]

\* s.replaceAll(c, "")
RECURSIVE replaceAll(_, _)
replaceAll(s, c) ==
  IF s = <<>> THEN <<>>
  ELSE IF Head(s) = c THEN replaceAll(Tail(s), c)
  ELSE <<Head(s)>> \o replaceAll(Tail(s), c)

\* "dir" + dirName.replaceAll("/", "")
dirId(dirName) == Str_dir \o replaceAll(dirName, "/")

\* sortItems(a, b), the comparator on the elements' text prop.
sortItems(a, b) == IF StrLess(a.text, b.text) THEN -1 ELSE 1

\* (a, b) => a.text < b.text ? -1 : 1 on React elements: an element has no
\* text field, undefined < undefined is false, the answer is always 1.
compareText(a, b) == 1

Reverse(s) == [k \in 1..Len(s) |-> s[Len(s) + 1 - k]]

\* items.sort(sortItems): ascending by the comparator.
RECURSIVE Insert(_, _), SortBySortItems(_)
Insert(x, s) ==
  IF s = <<>> THEN <<x>>
  ELSE IF sortItems(x, Head(s)) < 0 THEN <<x>> \o s
  ELSE <<Head(s)>> \o Insert(x, Tail(s))
SortBySortItems(s) ==
  IF s = <<>> THEN <<>> ELSE Insert(Head(s), SortBySortItems(Tail(s)))

\* The array after the revision's sort call, if it has one.
sort(rev, eng, items) ==
  CASE rev = Unsorted -> items
    [] rev = SortedByProps -> SortBySortItems(items)
    [] rev = SortedByText ->
         IF \A i, j \in 1..Len(items) : compareText(items[i], items[j]) > 0
           THEN (IF eng = "reverse" THEN Reverse(items) ELSE items)
           ELSE SortBySortItems(items)

RECURSIVE genDirItem(_, _, _, _)
genDirItem(rev, eng, dirName, dirContents) ==
  Element("dir", dirName, dirId(dirName),
          sort(rev, eng, textItems(dirContents.files))
            \o sort(rev, eng,
                    [k \in 1..Len(dirContents.dirs) |->
                       genDirItem(rev, eng, dirContents.dirs[k].name,
                                  dirContents.dirs[k].contents)]))

genAccordion(rev, eng, tree) ==
  Element("accordion", <<>>, <<>>,
          sort(rev, eng, textItems(tree.files))
            \o sort(rev, eng,
                    [k \in 1..Len(tree.dirs) |->
                       genDirItem(rev, eng, tree.dirs[k].name,
                                  tree.dirs[k].contents)]))

\* ------------------------------------------------------------ tree view
\* The DirItems of a mapping, each named by the names on the way to it.
RECURSIVE DirPaths(_)
DirPaths(tree) ==
  UNION {{<<tree.dirs[k].name>>}
           \cup {<<tree.dirs[k].name>> \o q : q \in DirPaths(tree.dirs[k].contents)}
         : k \in 1..Len(tree.dirs)}

IsPrefix(p, q) == Len(p) <= Len(q) /\ SubSeq(q, 1, Len(p)) = p

\* A DirItem is on screen when the Collapse of every DirItem above it is open.
Visible(open, p) == \A n \in 1..(Len(p) - 1) : SubSeq(p, 1, n) \in open

\* onClick with a Collapse that unmounts its children while closed.
onClickUnmount(open, p) ==
  IF p \in open THEN {q \in open : ~IsPrefix(p, q)} ELSE open \cup {p}

\* onClick={() => setOpen(!open)} of the DirItem at p; the Collapse keeps its
\* children mounted, so their state stays.
onClick(open, p) == IF p \in open THEN open \ {p} ELSE open \cup {p}

\* ------------------------------------------------------------ initial state
\* The page without a file tree view.
NoTree ==
  /\ revision = Unsorted
  /\ engine = "keep"
  /\ fileTree = Mapping(<<>>, <<>>)
  /\ accordion = NoAccordion
  /\ builds = 0
  /\ openDirs = {}

\* The page after ReactDOM rendered TableLauncher and the TaskList once:
\* nothing selected, no dialog open, one listener attached per rendered owner.
Init ==
  /\ rowInfo \in RowLists
  /\ mutable \in MutableValues
  /\ activeIds = <<>>
  /\ pending = <<>>
  /\ modalOpen = [o \in Owners |-> FALSE]
  /\ listeners =
       [o \in Owners |->
          IF o[1] = "job" \/ o[2] \in Range(RowIdsOf(rowInfo)) THEN 1 ELSE 0]
  /\ chromeShown = FALSE
  /\ dispatch = NoDispatch
  /\ request = NoRequest
  /\ want = [i \in RowIds |-> FALSE]
  /\ mountPoint \in BOOLEAN
  /\ fatal = NoError
  /\ NoTree

\* ------------------------------------------------------------ selection
\* changeActiveId(id, isActive): queues the updater.
changeActiveId(id, isActive) ==
  /\ Len(pending) < MaxPending
  /\ pending' = Append(pending, Updater(id, isActive))
  /\ want' = [want EXCEPT ![id] = isActive]

\* onChange of the checkbox of a rendered row: updateActive(id, !isActive),
\* isActive being the prop of the row's last render.
Change(id) ==
  /\ Idle
  /\ id \in RenderedIds
  /\ changeActiveId(id, ~IsActive(id))
  /\ UNCHANGED <<rowInfo, mutable, activeIds, modalOpen, listeners,
                 chromeShown, dispatch, request,
                 mountPoint, fatal>>

\* onClick of "Select all".
selectAll ==
  /\ Idle
  /\ Len(pending) < MaxPending
  /\ pending' = Append(pending, Value(selectAllValue(rowInfo)))
  /\ want' = [i \in RowIds |-> i \in Range(selectAllValue(rowInfo))]
  /\ UNCHANGED <<rowInfo, mutable, activeIds, modalOpen, listeners,
                 chromeShown, dispatch, request,
                 mountPoint, fatal>>

\* onClick of "Deselect all".
deselectAll ==
  /\ Idle
  /\ Len(pending) < MaxPending
  /\ pending' = Append(pending, Value(<<>>))
  /\ want' = [i \in RowIds |-> FALSE]
  /\ UNCHANGED <<rowInfo, mutable, activeIds, modalOpen, listeners,
                 chromeShown, dispatch, request,
                 mountPoint, fatal>>

\* React re-renders TableLauncher for the queued updates: the queue is
\* applied and every row in rowInfo is rendered again (each updater returns
\* a new array, so no render is skipped).
Render ==
  /\ Idle
  /\ pending # <<>>
  /\ CanRender(RowOwnersOf(rowInfo))
  /\ activeIds' = NextActiveIds
  /\ pending' = <<>>
  /\ listeners' = AddListeners(RowOwnersOf(rowInfo))
  /\ UNCHANGED <<rowInfo, mutable, modalOpen, chromeShown, dispatch, request,
                 want,
                 mountPoint, fatal>>

\* The collaborator renders TableLauncher again with another row list: the
\* component keeps its state, rows whose key is gone unmount (their state is
\* dropped, their listeners stay attached), the others render.
ReplaceRows(rows) ==
  /\ Idle
  /\ rows # rowInfo
  /\ CanRender(RowOwnersOf(rows))
  /\ rowInfo' = rows
  /\ activeIds' = NextActiveIds
  /\ pending' = <<>>
  /\ listeners' = AddListeners(RowOwnersOf(rows))
  /\ modalOpen' =
       [o \in Owners |->
          IF o[1] = "row" /\ o \notin RowOwnersOf(rows) THEN FALSE
          ELSE modalOpen[o]]
  /\ UNCHANGED <<mutable, chromeShown, dispatch, request, want,
                 mountPoint, fatal>>

\* The submit input is clicked: the browser posts the form to cfmm2tarUrl
\* and the page unloads.
Submit ==
  /\ Idle
  /\ ~SubmitDisabled
  /\ request' = [method |-> "POST", url |-> <<"cfmm2tar">>, tar_files |-> TarFiles]
  /\ UNCHANGED <<rowInfo, mutable, activeIds, pending, modalOpen, listeners,
                 chromeShown, dispatch, want,
                 mountPoint, fatal>>

\* The Delete link of a rendered row is followed.
Delete(k) ==
  /\ Idle
  /\ k \in 1..Len(rowInfo)
  /\ request' = [method |-> "GET", url |-> DeleteHref(rowInfo[k]), tar_files |-> <<>>]
  /\ UNCHANGED <<rowInfo, mutable, activeIds, pending, modalOpen, listeners,
                 chromeShown, dispatch, want,
                 mountPoint, fatal>>

\* ------------------------------------------------------------ modal
\* onClick of Rename / View log of a rendered owner whose button is enabled:
\* openModal sets modalOpen, the owner renders again if that changed it (and
\* with it its TarRenameModal / TaskLogModal), and data-bs-toggle="modal"
\* makes Bootstrap show #autobidsModal.
openModal(o) ==
  /\ Idle
  /\ Mounted(o)
  /\ ~OpenDisabled(o)
  /\ modalOpen[o] \/ CanRender({o})
  /\ chromeShown' = TRUE
  /\ IF ~modalOpen[o] /\ createPortalThrows(mountPoint)
       THEN \* the owner's body runs, then its modal throws while rendering:
            \* without an error boundary React unmounts the tree
            /\ fatal' = [owner |-> o, message |-> "Target container is not a DOM element."]
            /\ modalOpen' = [p \in Owners |-> FALSE]
            /\ listeners' = AddListeners({o})
       ELSE /\ modalOpen' = [modalOpen EXCEPT ![o] = TRUE]
            /\ listeners' = IF modalOpen[o] THEN listeners ELSE AddListeners({o})
            /\ fatal' = fatal
  /\ UNCHANGED <<rowInfo, mutable, activeIds, pending, dispatch, request, want,
                 mountPoint>>

\* The listener list of an event whose delivery also calls the listeners
\* attached while it is being delivered.
remainingAfterLive(remaining, o, attached) ==
  [remaining EXCEPT ![o] = @ - 1 + attached]

\* The listeners of o the event has yet to call after it called one of them:
\* the event calls the listeners that were attached when its delivery began,
\* not the ones (attached many) a handler's re-render attaches meanwhile.
remainingAfter(remaining, o, attached) == [remaining EXCEPT ![o] = @ - 1]

\* Bootstrap hid the modal and fires 'hidden.bs.modal' on #autobidsModal: the
\* listeners attached so far are the ones this event will call.
DismissStart ==
  /\ Idle
  /\ chromeShown
  /\ CanRender({o \in Owners : modalOpen[o] /\ Mounted(o)})
  /\ chromeShown' = FALSE
  /\ dispatch' =
       [active |-> TRUE, remaining |-> listeners,
        openAtStart |-> {o \in Owners : modalOpen[o]}]
  /\ UNCHANGED <<rowInfo, mutable, activeIds, pending, modalOpen, listeners,
                 request, want,
                 mountPoint, fatal>>

\* One listener of owner o runs. A listener of an unmounted row sets the
\* state of a component that is gone, which does nothing; setting the state
\* it already has renders nothing.
Listener(o) ==
  /\ dispatch.active
  /\ dispatch.remaining[o] > 0
  /\ LET now == IF Mounted(o) THEN hiddenListener(modalOpen[o]) ELSE modalOpen[o]
     IN  /\ now = modalOpen[o] \/ CanRender({o})
         /\ modalOpen' = [modalOpen EXCEPT ![o] = now]
         /\ listeners' =
              IF now = modalOpen[o] THEN listeners ELSE AddListeners({o})
  /\ dispatch' =
       [dispatch EXCEPT
          !.remaining =
            remainingAfter(@, o, listeners'[o] - listeners[o])]
  /\ UNCHANGED <<rowInfo, mutable, activeIds, pending, chromeShown, request,
                 want,
                 mountPoint, fatal>>

\* Every listener of the event has run.
DismissEnd ==
  /\ dispatch.active
  /\ \A o \in Owners : dispatch.remaining[o] = 0
  /\ dispatch' = NoDispatch
  /\ UNCHANGED <<rowInfo, mutable, activeIds, pending, modalOpen, listeners,
                 chromeShown, request, want,
                 mountPoint, fatal>>

Next ==
  /\ \/ \E id \in RowIds : Change(id)
     \/ selectAll
     \/ deselectAll
     \/ Render
     \/ \E rows \in RowLists : ReplaceRows(rows)
     \/ Submit
     \/ \E k \in 1..NumRows : Delete(k)
     \/ \E o \in Owners : openModal(o)
     \/ DismissStart
     \/ \E o \in Owners : Listener(o)
     \/ DismissEnd
  /\ UNCHANGED treeVars

Spec == Init /\ [][Next]_vars

\* The delivery of an event runs to completion: the browser calls the
\* listeners one after the other without yielding to anything else.
LiveSpec ==
  /\ Init
  /\ [][Next]_vars
  /\ WF_vars((\E o \in Owners : Listener(o)) /\ UNCHANGED treeVars)
  /\ WF_vars(DismissEnd /\ UNCHANGED treeVars)

\* ------------------------------------------------------------ file tree page
\* The page that shows only a file tree: no table, no task list in use.
TreeInit ==
  /\ revision \in Revisions
  /\ engine \in (IF revision = SortedByText THEN Engines ELSE {"keep"})
  /\ fileTree \in InputTrees
  /\ accordion = NoAccordion
  /\ builds = 0
  /\ openDirs = {}
  /\ rowInfo = <<>>
  /\ mutable = "undefined"
  /\ activeIds = <<>>
  /\ pending = <<>>
  /\ modalOpen = [o \in Owners |-> FALSE]
  /\ listeners = [o \in Owners |-> 0]
  /\ chromeShown = FALSE
  /\ dispatch = NoDispatch
  /\ request = NoRequest
  /\ want = [i \in RowIds |-> FALSE]
  /\ mountPoint = TRUE
  /\ fatal = NoError

\* A render of the tree: genAccordion is called anew, the DirItems keep
\* their state (same keys).
Build ==
  /\ builds < MaxBuilds
  /\ builds' = builds + 1
  /\ accordion' = genAccordion(revision, engine, fileTree)
  /\ UNCHANGED <<revision, engine, fileTree, openDirs>>

\* The user clicks the button of the DirItem at p.
Click(p) ==
  /\ builds > 0
  /\ Visible(openDirs, p)
  /\ openDirs' = onClick(openDirs, p)
  /\ UNCHANGED <<revision, engine, fileTree, accordion, builds>>

TreeNext ==
  /\ \/ Build
     \/ \E p \in DirPaths(fileTree) : Click(p)
  /\ UNCHANGED pageVars

TreeSpec == TreeInit /\ [][TreeNext]_vars

\* ------------------------------------------------------------ properties
Last(s) == s[Len(s)]
Prefix(s, n) == SubSeq(s, 1, n)

\* C1: the selection (the state the queued updates leave) holds exactly the
\* ids whose latest update asked for membership, and an updater call that
\* repeats the one before it leaves the array as that one left it.
C1_ToggleTracksLatest ==
  /\ Range(NextActiveIds) = {i \in RowIds : want[i]}
  /\ \A k \in 2..Len(pending) :
       (pending[k].kind = "updater" /\ pending[k] = pending[k - 1]) =>
         ProcessQueue(activeIds, Prefix(pending, k))
           = ProcessQueue(activeIds, Prefix(pending, k - 1))

\* C1 witness: with two ids selected, changeActiveId(id, false) was called
\* twice in a row for one of them and only that id is removed.
C1_Witness ==
  /\ Len(activeIds) = 2
  /\ Len(pending) = 2
  /\ pending[1] = pending[2]
  /\ pending[1].kind = "updater"
  /\ ~pending[1].isActive
  /\ Includes(activeIds, pending[1].id)
  /\ Len(NextActiveIds) = 1
  /\ ~Includes(NextActiveIds, pending[1].id)

\* C2 (as claimed): the selection holds only ids of the current row list.
C2_SelectionWithinRows == Range(activeIds) \subseteq RenderedIds

\* C3 (as claimed): two change events of one row delivered before the row
\* renders again flip its membership twice, back to where it was.
C3_TwoChangesFlipTwice ==
  \A k \in 2..Len(pending) :
    (/\ pending[k].kind = "updater"
     /\ pending[k - 1].kind = "updater"
     /\ pending[k].id = pending[k - 1].id) =>
      Includes(ProcessQueue(activeIds, Prefix(pending, k)), pending[k].id)
        = Includes(ProcessQueue(activeIds, Prefix(pending, k - 2)), pending[k].id)

\* C4: a selectAll step leaves the selection equal to the ids of the rendered
\* rows and a deselectAll step leaves it empty, whatever it was before.
C4_SelectAllDeselectAll ==
  [][/\ selectAll => Range(NextActiveIds') = RenderedIds'
     /\ deselectAll => NextActiveIds' = <<>>]_vars

\* C4 witness: selectAll was clicked over two rows while the selection was
\* a different, non-empty one.
C4_Witness ==
  /\ Len(rowInfo) = 2
  /\ activeIds # <<>>
  /\ Range(activeIds) # RenderedIds
  /\ pending # <<>>
  /\ Last(pending) = Value(RowIdsOf(rowInfo))
  /\ Range(NextActiveIds) = RenderedIds

\* C5: when every listener of one 'hidden.bs.modal' event has run, modalOpen
\* of every owner is false.
C5_DismissalClosesAll ==
  (dispatch.active /\ \A o \in Owners : dispatch.remaining[o] = 0) =>
    \A o \in Owners : ~modalOpen[o]

\* C5 witness: a row's rename dialog and a job's log dialog were both open
\* when the event fired, and its delivery is complete.
C5_Witness ==
  /\ dispatch.active
  /\ \A o \in Owners : dispatch.remaining[o] = 0
  /\ \E i \in RowIds, j \in JobIds :
       /\ {RowOwner(i), JobOwner(j)} \subseteq dispatch.openAtStart
       /\ Mounted(RowOwner(i))
       /\ ~modalOpen[RowOwner(i)] /\ ~modalOpen[JobOwner(j)]

\* C6 (as claimed): at most one owner's portal is rendered into the mount point.
C6_AtMostOnePortal == Cardinality(Portals) <= 1

\* C7 (as claimed): each rendered owner has exactly one listener attached,
\* and an unmounted one has none.
C7_OneListenerPerOwner ==
  \A o \in Owners : listeners[o] = IF Mounted(o) THEN 1 ELSE 0

\* C8: with mutable false the submit input and every Rename button are
\* disabled, no rename dialog is open and no form was posted, while every
\* row's Delete link points to its deleteUrl and can be followed.
C8_ReadOnly ==
  mutable = "false" =>
    /\ SubmitDisabled
    /\ request.method # "POST"
    /\ \A k \in 1..Len(rowInfo) :
         /\ RenameDisabled(mutable)
         /\ ~modalOpen[RowOwner(rowInfo[k].id)]
         /\ DeleteHref(rowInfo[k]) = <<"delete", rowInfo[k].id>>
         /\ Idle => ENABLED Delete(k)

\* C8 witness: in read-only mode the Delete link of a row was followed.
C8_Witness ==
  /\ mutable = "false"
  /\ Len(rowInfo) = 2
  /\ request.method = "GET"
  /\ request.url = <<"delete", rowInfo[2].id>>

\* C9 (as claimed): without a mutable prop the controls are enabled, as they
\* are with mutable = true.
C9_MutableDefaultsTrue ==
  mutable = "undefined" =>
    /\ SubmitDisabled = Not("true")
    /\ RenameDisabled(mutable) = RenameDisabled("true")

\* C10 (as claimed): the posted tar_files values are exactly the ids of the
\* selection, one value each, all of them rendered rows.
C10_PostedIsSelection ==
  request.method = "POST" =>
    /\ Range(request.tar_files) = Range(activeIds)
    /\ Len(request.tar_files) = Cardinality(Range(activeIds))
    /\ Range(request.tar_files) \subseteq RenderedIds

\* C11: with the mount point missing, no owner is ever left with modalOpen
\* true, and once an owner tried to open its dialog the page is in the
\* fatal error that the render of its portal threw.
C11_MissingMountFailsFast ==
  ~mountPoint =>
    /\ \A o \in Owners : ~modalOpen[o]
    /\ chromeShown => fatal # NoError

\* C11 witness: a row tried to open its rename dialog without a mount point.
C11_Witness ==
  /\ ~mountPoint
  /\ chromeShown
  /\ \E i \in RowIds : fatal.owner = RowOwner(i)
  /\ Portals = {}

\* C12 (as claimed): a job with a null log has View log disabled and is never
\* open; a job with any non-null log has it enabled and shows its log.
C12_NonNullLogEnabled ==
  \A j \in JobIds :
    IF JobLog(j) = Null
      THEN ViewLogDisabled(JobLog(j)) /\ ~modalOpen[JobOwner(j)]
      ELSE /\ ~ViewLogDisabled(JobLog(j))
           /\ modalOpen[JobOwner(j)] => JobContent(j).body = JobLog(j)

\* C12 (amended): a job whose log is null or the empty string has View log
\* disabled and is never open; a job whose log is a non-empty string has it
\* enabled (the click opens its dialog whenever the page can take one) and,
\* while it is open, the content rendered for it is its own log string.
C12_FalsyLogDisabled ==
  \A j \in JobIds :
    IF JobLog(j) \in {Null, EmptyString}
      THEN ViewLogDisabled(JobLog(j)) /\ ~modalOpen[JobOwner(j)]
      ELSE /\ ~ViewLogDisabled(JobLog(j))
           /\ (Idle /\ CanRender({JobOwner(j)})) => ENABLED openModal(JobOwner(j))
           /\ modalOpen[JobOwner(j)] =>
                /\ JobOwner(j) \in Portals
                /\ JobContent(j).body = <<"string", "log", j>>

\* C12 witness: a job with a log has its dialog open, showing that log, while
\* the jobs with a null and with an empty log are there and closed.
C12_Witness ==
  \E j, n, e \in JobIds :
    /\ JobLog(n) = Null /\ JobLog(e) = EmptyString
    /\ ~modalOpen[JobOwner(n)] /\ ~modalOpen[JobOwner(e)]
    /\ modalOpen[JobOwner(j)]
    /\ JobContent(j) = [title |-> "Task log", body |-> <<"string", "log", j>>]


\* The array holds no element twice.
NoDuplicates(s) == \A i, j \in 1..Len(s) : i # j => s[i] # s[j]

\* C17: activeIds never holds an id twice, neither as rendered nor after any
\* of the queued updates, so the one splice of changeActiveId(id, false)
\* leaves no occurrence of id behind.
C17_NoDuplicateIds ==
  /\ NoDuplicates(activeIds)
  /\ \A k \in 1..Len(pending) :
       LET after == ProcessQueue(activeIds, Prefix(pending, k)) IN
       /\ NoDuplicates(after)
       /\ (pending[k].kind = "updater" /\ ~pending[k].isActive)
            => ~Includes(after, pending[k].id)

\* C17 witness: changeActiveId(id, true) was called twice before a render
\* for an id that is not selected, while another id is; the second call finds
\* the id in the state the first one left and pushes nothing.
C17_Witness ==
  /\ Len(pending) = 2
  /\ pending[1].kind = "updater"
  /\ pending[1].isActive
  /\ pending[2] = pending[1]
  /\ Len(activeIds) = 1
  /\ ~Includes(activeIds, pending[1].id)
  /\ Len(NextActiveIds) = 2

\* C18: every queued changeActiveId update is applied to the state the update
\* before it left: it puts its own id in or out as asked and leaves the
\* membership of every other id as it was.
C18_BatchedTogglesAllApply ==
  \A k \in 1..Len(pending) :
    pending[k].kind = "updater" =>
      LET before == ProcessQueue(activeIds, Prefix(pending, k - 1))
          after == ProcessQueue(activeIds, Prefix(pending, k))
      IN  /\ Includes(after, pending[k].id) = pending[k].isActive
          /\ \A j \in RowIds \ {pending[k].id} :
               Includes(after, j) = Includes(before, j)

\* C18 witness: toggles of two distinct ids wait for one render, one adding
\* and one removing.
C18_Witness ==
  /\ Len(pending) = 2
  /\ pending[1].kind = "updater"
  /\ pending[2].kind = "updater"
  /\ pending[1].id # pending[2].id
  /\ pending[1].isActive
  /\ ~pending[2].isActive
  /\ Includes(activeIds, pending[2].id)
  /\ Range(NextActiveIds) = {pending[1].id}

\* C19: the delivery of one 'hidden.bs.modal' event ends: every handler call
\* uses up one of the listeners the event began with, whatever listeners the
\* re-renders attach meanwhile, and the delivery leads to a state where no
\* handler is running and every open flag is false.
C19_DismissalTerminates ==
  /\ [][\A o \in Owners :
          Listener(o) =>
            Sum(dispatch'.remaining, Owners) = Sum(dispatch.remaining, Owners) - 1]_vars
  /\ dispatch.active ~> (~dispatch.active /\ \A o \in Owners : ~modalOpen[o])

\* C19 witness: every listener of the event has run, and an owner that was
\* open when it began has rendered on opening and again on closing, so it
\* holds more listeners than the event called.
C19_Witness ==
  /\ dispatch.active
  /\ \A o \in Owners : dispatch.remaining[o] = 0
  /\ \E o \in dispatch.openAtStart :
       /\ Mounted(o)
       /\ listeners[o] >= 3
       /\ ~modalOpen[o]

\* ------------------------------------------------------------ tree properties
\* The mapping of the specification's example.
ExampleTree ==
  Mapping(<<Str_a_txt>>, <<Entry(Str_sub, Mapping(<<Str_b_txt>>, <<>>))>>)

\* node's children are exactly one file element per entry of tree.files,
\* then one dir element per entry of tree.dirs, each built from its mapping.
RECURSIVE BuiltFrom(_, _)
BuiltFrom(node, tree) ==
  LET nf == Len(tree.files)
      nd == Len(tree.dirs)
      ch == node.children
  IN  /\ Len(ch) = nf + nd
      /\ \A k \in 1..nf : ch[k].kind = "file" /\ ch[k].children = <<>>
      /\ \A k \in (nf + 1)..(nf + nd) : ch[k].kind = "dir"
      /\ \A i \in 1..nf :
           Cardinality({k \in 1..nf : ch[k].text = tree.files[i]}) = 1
      /\ \A i \in 1..nd :
           /\ Cardinality({k \in (nf + 1)..(nf + nd) :
                             ch[k].text = tree.dirs[i].name}) = 1
           /\ \A k \in (nf + 1)..(nf + nd) :
                ch[k].text = tree.dirs[i].name
                  => BuiltFrom(ch[k], tree.dirs[i].contents)

\* C13: in every revision the built tree has, at each level, one file node
\* per entry of files followed by one dir node per key of dirs, each dir node
\* built from its own mapping, nothing dropped or duplicated; the example
\* mapping gives a root with file a.txt and directory sub holding file b.txt.
C13_ChildrenMirrorMapping ==
  builds > 0 =>
    /\ accordion.kind = "accordion"
    /\ BuiltFrom(accordion, fileTree)
    /\ fileTree = ExampleTree =>
         /\ Len(accordion.children) = 2
         /\ accordion.children[1] = TextItem(Str_a_txt)
         /\ accordion.children[2].kind = "dir"
         /\ accordion.children[2].text = Str_sub
         /\ accordion.children[2].children = <<TextItem(Str_b_txt)>>

C13_Witness ==
  /\ builds > 0
  /\ revision = SortedByText
  /\ fileTree = ExampleTree

\* The dir elements below node carry "dir" + the stripped names on the way to
\* them, and no two sibling dir elements share an identifier.
RECURSIVE DirIdsFromPath(_, _)
DirIdsFromPath(node, above) ==
  LET ch == node.children IN
  /\ \A k \in 1..Len(ch) :
       ch[k].kind = "dir" =>
         /\ ch[k].dirId = Str_dir \o above \o replaceAll(ch[k].text, "/")
         /\ DirIdsFromPath(ch[k], above \o replaceAll(ch[k].text, "/"))
  /\ \A i, j \in 1..Len(ch) :
       (i # j /\ ch[i].kind = "dir" /\ ch[j].kind = "dir")
         => ch[i].dirId # ch[j].dirId

\* C14: each dir node's identifier is the concatenation of the names of the
\* directories on its path with the separators stripped, the same at every
\* rebuild, and sibling directories with distinct names get distinct
\* identifiers.
C14_DirIdFromPath ==
  builds > 0 =>
    /\ DirIdsFromPath(accordion, <<>>)
    /\ accordion = genAccordion(revision, engine, fileTree)

\* The file children and the dir children of every node below node are in
\* lexicographic order of their names (lexical) or in the mapping's order.
RECURSIVE FollowsPolicy(_, _, _)
FollowsPolicy(node, tree, lexical) ==
  LET nf == Len(tree.files)
      nd == Len(tree.dirs)
      ch == node.children
      Ascending(lo, hi) ==
        \A k \in lo..(hi - 1) : StrLess(ch[k].text, ch[k + 1].text)
  IN  /\ Len(ch) = nf + nd
      /\ IF lexical
           THEN Ascending(1, nf) /\ Ascending(nf + 1, nf + nd)
           ELSE /\ \A k \in 1..nf : ch[k].text = tree.files[k]
                /\ \A k \in 1..nd : ch[nf + k].text = tree.dirs[k].name
      /\ \A k \in 1..nd :
           \A c \in (nf + 1)..(nf + nd) :
             ch[c].text = tree.dirs[k].name
               => FollowsPolicy(ch[c], tree.dirs[k].contents, lexical)

\* C15: the built tree follows one ordering policy at the root and at every
\* nested level: files and directories are each in the order of the mapping,
\* or each in lexicographic order of their names.
C15_OneOrderingPolicy ==
  builds > 0 => \E lexical \in BOOLEAN : FollowsPolicy(accordion, fileTree, lexical)

\* C16: every directory starts closed, and a click on a directory flips that
\* directory's open flag and leaves the flag of every other directory
\* (sibling, ancestor, descendant) as it was.
C16_ToggleIsLocal ==
  /\ openDirs = {}
  /\ [][\A p \in DirPaths(fileTree) :
          Click(p) =>
            /\ (p \in openDirs') = (p \notin openDirs)
            /\ \A q \in DirPaths(fileTree) \ {p} :
                 (q \in openDirs') = (q \in openDirs)]_vars

\* A parent is closed while a directory below it still has its flag set.
C16_Witness ==
  \E p, q \in DirPaths(fileTree) :
    /\ p # q
    /\ IsPrefix(p, q)
    /\ p \notin openDirs
    /\ q \in openDirs

====
